---- MODULE Spec2Model ----
(***************************************************************************)
(* Model of the ScreenReader component of Screen-Text-Analyzer             *)
(* (src/src/components/ScreenReader.tsx): the OCR worker lifecycle, the    *)
(* capture / analysis runs, the word filter and spatial sort, the local    *)
(* text cleanup and the remote cleanup call.                               *)
(*                                                                         *)
(* A text is a sequence of characters, each character a one-element        *)
(* string.  The three non-ASCII characters the source names are written    *)
(* "REG" (U+00AE), "COPY" (U+00A9) and "POUND" (U+00A3).                   *)
(***************************************************************************)
EXTENDS Integers, Sequences, FiniteSets, TLC

VARIABLES
    \* the component (useState and useRef)
    isMounted, workerRef, initError, initializationStatus, isCapturing, isAnalyzing,
    blocks, cleanedText, isLoading,
    \* the workers created, the calls of initializeWorker, startCapture and
    \* cleanTextWithAI in progress
    workerState, initCalls, captures, aiCalls,
    \* cleanTextLocally on its own
    txtIn, txtOut, txtPc,
    \* the word filter and sort on their own
    ocrWords, fBlocks, fPc,
    \* the paragraph grouping on its own
    cmpSentences, cmpParagraphs, cmpPc

componentVars ==
    <<isMounted, workerRef, workerState, initError, initializationStatus, isCapturing,
      isAnalyzing, blocks, cleanedText, initCalls, captures>>

aiVars == <<isLoading, aiCalls>>

textVars == <<txtIn, txtOut, txtPc>>

filterVars == <<ocrWords, fBlocks, fPc>>

composeVars == <<cmpSentences, cmpParagraphs, cmpPc>>

vars == <<componentVars, aiVars, textVars, filterVars, composeVars>>

(***************************************************************************)
(* Characters and the character classes of the regular expressions.        *)
(***************************************************************************)
LowerSeq ==
    <<"a","b","c","d","e","f","g","h","i","j","k","l","m",
      "n","o","p","q","r","s","t","u","v","w","x","y","z">>

UpperSeq ==
    <<"A","B","C","D","E","F","G","H","I","J","K","L","M",
      "N","O","P","Q","R","S","T","U","V","W","X","Y","Z">>

Lower == {LowerSeq[i] : i \in DOMAIN LowerSeq}

Upper == {UpperSeq[i] : i \in DOMAIN UpperSeq}

Letter == Lower \cup Upper

Digit == {"0","1","2","3","4","5","6","7","8","9"}

\* \s
Whitespace == {" ", "\t", "\n", "\r"}

\* [,.!?;:]
Punct == {",", ".", "!", "?", ";", ":"}

\* [.!?]
SentenceEnd == {".", "!", "?"}

\* [=\-@(R)(C)]
LeadSymbols == {"=", "-", "@", "REG", "COPY"}

\* [a-zA-Z0-9\s.,!?;:'"()\-$ POUND]
AllowedChars ==
    Letter \cup Digit \cup Whitespace
        \cup {".", ",", "!", "?", ";", ":", "'", "\"", "(", ")", "-", "$", "POUND"}

IsSpace(c) == c \in Whitespace

toUpperCase(c) ==
    IF c \in Lower THEN UpperSeq[CHOOSE i \in DOMAIN LowerSeq : LowerSeq[i] = c] ELSE c

\* The first index >= i of s that holds no whitespace (Len(s) + 1 if none).
SkipSpace(s, i) ==
    CHOOSE j \in i..(Len(s) + 1) :
        /\ \A k \in i..(j - 1) : IsSpace(s[k])
        /\ (j = Len(s) + 1 \/ ~IsSpace(s[j]))

\* The last index <= i of s that holds no whitespace (0 if none).
SkipSpaceBack(s, i) ==
    CHOOSE j \in 0..i :
        /\ \A k \in (j + 1)..i : IsSpace(s[k])
        /\ (j = 0 \/ ~IsSpace(s[j]))

\* Whether the whitespace run around index i ends just before a character of C.
RunFollowedBy(s, i, C) ==
    LET j == SkipSpace(s, i) IN j <= Len(s) /\ s[j] \in C

\* Whether the whitespace run around index i starts just after a character of C.
RunPrecededBy(s, i, C) ==
    LET j == SkipSpaceBack(s, i) IN j >= 1 /\ s[j] \in C

\* The concatenation of pieces[lo..hi].
RECURSIVE concatRange(_, _, _)
concatRange(pieces, lo, hi) ==
    IF lo > hi THEN <<>>
    ELSE IF lo = hi THEN pieces[lo]
    ELSE LET mid == (lo + hi) \div 2
         IN concatRange(pieces, lo, mid) \o concatRange(pieces, mid + 1, hi)

\* A replace call given by what each index of the text contributes.
expand(pieces) == concatRange(pieces, 1, Len(pieces))

\* String.prototype.trim
trim(s) ==
    IF \A k \in DOMAIN s : IsSpace(s[k]) THEN <<>>
    ELSE LET a == CHOOSE i \in DOMAIN s :
                      ~IsSpace(s[i]) /\ \A k \in 1..(i - 1) : IsSpace(s[k])
             b == CHOOSE i \in DOMAIN s :
                      ~IsSpace(s[i]) /\ \A k \in (i + 1)..Len(s) : IsSpace(s[k])
         IN SubSeq(s, a, b)

\* Whether the literal pat occurs in s at index i.
MatchAt(s, i, pat) ==
    /\ i + Len(pat) - 1 <= Len(s)
    /\ \A k \in DOMAIN pat : s[i + k - 1] = pat[k]

\* Array.prototype.join
join(parts, sep) ==
    expand([i \in 1..Len(parts) |-> IF i = 1 THEN parts[i] ELSE sep \o parts[i]])

\* Array.prototype.filter: the elements of s at the indexes where keep is true.
filterIdx(s, keep) ==
    LET kept == SelectSeq([i \in 1..Len(s) |-> i], LAMBDA i : keep[i])
    IN [k \in 1..Len(kept) |-> s[kept[k]]]

(***************************************************************************)
(* The navigation labels (the word filter's regex and the two navigation   *)
(* menu phrases of cleanTextLocally).                                      *)
(***************************************************************************)
LblHome ==
    <<"H","o","m","e">>

LblNews ==
    <<"N","e","w","s">>

LblSport ==
    <<"S","p","o","r","t">>

LblBusiness ==
    <<"B","u","s","i","n","e","s","s">>

LblInnovation ==
    <<"I","n","n","o","v","a","t","i","o","n">>

LblCulture ==
    <<"C","u","l","t","u","r","e">>

LblArts ==
    <<"A","r","t","s">>

LblTravel ==
    <<"T","r","a","v","e","l">>

LblEarth ==
    <<"E","a","r","t","h">>

LblAudio ==
    <<"A","u","d","i","o">>

LblVideo ==
    <<"V","i","d","e","o">>

LblLive ==
    <<"L","i","v","e">>

WordWatch ==
    <<"W","a","t","c","h">>

WordSign ==
    <<"S","i","g","n">>

WordIn ==
    <<"I","n">>

NavLabels ==
    <<LblHome, LblNews, LblSport, LblBusiness, LblInnovation, LblCulture,
      LblArts, LblTravel, LblEarth, LblAudio, LblVideo, LblLive>>

\* "Watch Live Sign In Home News ... Video Live"
NavMenuLiteral ==
    join(<<WordWatch, LblLive, WordSign, WordIn>> \o NavLabels, <<" ">>)

(***************************************************************************)
(* cleanTextLocally, step 1: the chain of replace calls and the trim.      *)
(***************************************************************************)
\* .replace(/^[=\-@(R)(C)]+/g, '')
stripLeadSymbols(s) ==
    LET j == CHOOSE i \in 1..(Len(s) + 1) :
                 /\ \A k \in 1..(i - 1) : s[k] \in LeadSymbols
                 /\ (i = Len(s) + 1 \/ s[i] \notin LeadSymbols)
    IN SubSeq(s, j, Len(s))

\* The first index >= i where hit is true, or 0.
firstFrom(hit, i) ==
    IF \E p \in i..Len(hit) : hit[p]
    THEN CHOOSE p \in i..Len(hit) : hit[p] /\ \A q \in i..(p - 1) : ~hit[q]
    ELSE 0

\* .replace(/<literal>/g, ''), from index i on: match after match, leftmost first
RECURSIVE removeLiteral(_, _, _)
removeLiteral(s, pat, i) ==
    LET hit == [q \in 1..Len(s) |-> MatchAt(s, q, pat)]
        p == firstFrom(hit, i)
    IN IF p = 0 THEN SubSeq(s, i, Len(s))
       ELSE SubSeq(s, i, p - 1) \o removeLiteral(s, pat, p + Len(pat))

\* Home\s+News\s+...\s+Live tried at index i from label k on: the index after
\* the match, or 0.
RECURSIVE matchNavFrom(_, _, _)
matchNavFrom(s, i, k) ==
    IF ~MatchAt(s, i, NavLabels[k]) THEN 0
    ELSE LET e == i + Len(NavLabels[k])
         IN IF k = Len(NavLabels) THEN e
            ELSE LET j == SkipSpace(s, e)
                 IN IF j = e THEN 0 ELSE matchNavFrom(s, j, k + 1)

\* .replace(/Home\s+News\s+...\s+Video\s+Live/g, '')
RECURSIVE removeNavMenu(_, _)
removeNavMenu(s, i) ==
    LET hit == [q \in 1..Len(s) |-> matchNavFrom(s, q, 1) # 0]
        p == firstFrom(hit, i)
    IN IF p = 0 THEN SubSeq(s, i, Len(s))
       ELSE SubSeq(s, i, p - 1) \o removeNavMenu(s, matchNavFrom(s, p, 1))

\* .replace(/[^a-zA-Z0-9\s.,!?;:'"()\-$ POUND]/g, ' ')
replaceUnusual(s) ==
    [i \in DOMAIN s |-> IF s[i] \in AllowedChars THEN s[i] ELSE " "]

\* .replace(/\s*<ch>\s*/g, rep) for a single character ch: every ch is
\* matched, with the whitespace runs that touch it.
replaceSpaced(s, ch, rep) ==
    expand([i \in 1..Len(s) |->
        IF s[i] = ch THEN rep
        ELSE IF IsSpace(s[i]) /\ (RunFollowedBy(s, i, {ch}) \/ RunPrecededBy(s, i, {ch}))
        THEN <<>>
        ELSE <<s[i]>>])

\* .replace(/["|"]/g, '"') and .replace(/['']/g, "'")
normalizeQuotes(s) ==
    [i \in DOMAIN s |-> IF s[i] \in {"\"", "|"} THEN "\""
                        ELSE IF s[i] = "'" THEN "'" ELSE s[i]]

\* let cleaned = text.replace(...)....trim()
cleaned(text) ==
    LET r1 == stripLeadSymbols(text)
        r2 == removeLiteral(r1, NavMenuLiteral, 1)
        r3 == removeNavMenu(r2, 1)
        r4 == replaceUnusual(r3)
        r5 == replaceSpaced(r4, "[", <<" ">>)
        r6 == replaceSpaced(r5, "]", <<" ">>)
        r7 == replaceSpaced(r6, "(", <<"(">>)
        r8 == replaceSpaced(r7, ")", <<")", " ">>)
    IN trim(normalizeQuotes(r8))

(***************************************************************************)
(* cleanTextLocally, step 2: sentences.                                    *)
(***************************************************************************)
\* cleaned.split(/(?<=[.!?])\s+/): st is where the current piece starts.
RECURSIVE splitFrom(_, _)
splitFrom(s, st) ==
    LET hit == [q \in 1..Len(s) |-> q > 1 /\ s[q - 1] \in SentenceEnd /\ IsSpace(s[q])]
        p == firstFrom(hit, st)
    IN IF p = 0 THEN <<SubSeq(s, st, Len(s))>>
       ELSE <<SubSeq(s, st, p - 1)>> \o splitFrom(s, SkipSpace(s, p))

sentences(text) == splitFrom(cleaned(text), 1)

\* The sentences shorter than this are dropped.
MinSentenceLength == 5

\* A sentence filter without the length test.
keepSentenceAnyLength(sentence) ==
    /\ ~(/\ Len(sentence) \in 1..5
         /\ \A k \in DOMAIN sentence : sentence[k] \in Upper \cup Whitespace)
    /\ ~(\A k \in DOMAIN sentence : sentence[k] \notin Letter)

\* The predicate of .filter(sentence => ...)
keepSentence(sentence) ==
    /\ ~(Len(sentence) < MinSentenceLength)
    \* /^[A-Z\s]{1,5}$/
    /\ ~(/\ Len(sentence) \in 1..5
         /\ \A k \in DOMAIN sentence : sentence[k] \in Upper \cup Whitespace)
    \* /^[^a-zA-Z]*$/
    /\ ~(\A k \in DOMAIN sentence : sentence[k] \notin Letter)

\* .replace(/\s+/g, ' ')
collapseSpaces(s) ==
    expand([i \in 1..Len(s) |->
        IF ~IsSpace(s[i]) THEN <<s[i]>>
        ELSE IF i > 1 /\ IsSpace(s[i - 1]) THEN <<>>
        ELSE <<" ">>])

\* .replace(/\s+([,.!?;:])/g, '$1')
dropSpaceBeforePunct(s) ==
    expand([i \in 1..Len(s) |->
        IF IsSpace(s[i]) /\ RunFollowedBy(s, i, Punct) THEN <<>> ELSE <<s[i]>>])

\* .replace(/([,.!?;:])\s*/g, '$1 ')
spaceAfterPunct(s) ==
    expand([i \in 1..Len(s) |->
        IF s[i] \in Punct THEN <<s[i], " ">>
        ELSE IF IsSpace(s[i]) /\ RunPrecededBy(s, i, Punct) THEN <<>>
        ELSE <<s[i]>>])

\* The function of the second .map(sentence => ...).  The two replaces
\* /([a-zA-Z])'([a-zA-Z])/g -> "$1'$2" and /(\w+)([,.!?;:])/g -> '$1$2' put
\* back exactly what they match.
cleanSentence(sentence) ==
    LET c1 == IF sentence # <<>> /\ sentence[1] \in Lower
              THEN <<toUpperCase(sentence[1])>> \o Tail(sentence)
              ELSE sentence
        c2 == collapseSpaces(c1)
        c3 == dropSpaceBeforePunct(c2)
        c4 == spaceAfterPunct(c3)
    IN trim(c4)

\* sentences.map(s => s.trim()).filter(...).map(...)
processedSentences(text) ==
    LET ss == sentences(text)
        keep == [i \in 1..Len(ss) |-> keepSentence(trim(ss[i]))]
        kept == filterIdx(ss, keep)
    IN [k \in 1..Len(kept) |-> cleanSentence(trim(kept[k]))]

(***************************************************************************)
(* cleanTextLocally, step 3: paragraphs.                                   *)
(***************************************************************************)
\* currentParagraph.length >= 3
MaxParagraphSentences == 3

\* sentence.length < 30
ShortSentenceLength == 30

\* The start-of-paragraph test without the limit on the paragraph's length.
shouldStartNewParagraphUnbounded(currentParagraph, sentence) ==
    \/ sentence[1] \in {"\"", "'"}
    \/ Len(sentence) < ShortSentenceLength
    \/ LET t == trim(sentence) IN t # <<>> /\ t[Len(t)] = ":"

shouldStartNewParagraph(currentParagraph, sentence) ==
    \/ Len(currentParagraph) >= MaxParagraphSentences
    \/ sentence[1] \in {"\"", "'"}
    \/ Len(sentence) < ShortSentenceLength
    \* /[:]\s*$/
    \/ LET t == trim(sentence) IN t # <<>> /\ t[Len(t)] = ":"

\* processedSentences.forEach((sentence, index) => ...): the paragraphs (each
\* the list of its sentences) after the sentences from index on are visited.
RECURSIVE groupFrom(_, _, _, _)
groupFrom(ss, index, paragraphs, currentParagraph) ==
    IF index > Len(ss) THEN paragraphs
    ELSE IF trim(ss[index]) = <<>>
    THEN groupFrom(ss, index + 1, paragraphs, currentParagraph)
    ELSE LET flush == shouldStartNewParagraph(currentParagraph, ss[index])
                          /\ Len(currentParagraph) > 0
             ps == IF flush THEN Append(paragraphs, currentParagraph) ELSE paragraphs
             cur == Append(IF flush THEN <<>> ELSE currentParagraph, ss[index])
         IN IF index = Len(ss)
            THEN groupFrom(ss, index + 1, Append(ps, cur), cur)
            ELSE groupFrom(ss, index + 1, ps, cur)

paragraphGroups(text) == groupFrom(processedSentences(text), 1, <<>>, <<>>)

\* paragraphs.push(currentParagraph.join(' ')) for every group
paragraphsOf(groups) == [i \in DOMAIN groups |-> join(groups[i], <<" ">>)]

\* Paragraphs joined by a single line break instead of a blank line.
formatParagraphsSingleBreak(ps) ==
    LET keep == [i \in 1..Len(ps) |-> Len(trim(ps[i])) > 0]
        kept == filterIdx(ps, keep)
    IN join([k \in 1..Len(kept) |-> trim(kept[k])], <<"\n">>)

\* return paragraphs.filter(p => p.trim().length > 0).map(p => p.trim()).join('\n\n')
formatParagraphs(ps) ==
    LET keep == [i \in 1..Len(ps) |-> Len(trim(ps[i])) > 0]
        kept == filterIdx(ps, keep)
    IN join([k \in 1..Len(kept) |-> trim(kept[k])], <<"\n", "\n">>)

cleanTextLocally(text) == formatParagraphs(paragraphsOf(paragraphGroups(text)))

(***************************************************************************)
(* The words of a recognition result and filterAndFormatBlocks.  A word's  *)
(* confidence is the OCR engine's, 0..100; a TextBlock's confidence is     *)
(* that divided by 100, kept here in thousandths (0.6 is 600).  Of the     *)
(* bounding box only x0 and y0 are read by the code.                       *)
(***************************************************************************)
\* The confidence taken as it comes from the engine, not divided by 100.
normalizedConfidenceRaw(confidence) == confidence * 1000

\* confidence: word.confidence / 100
normalizedConfidence(confidence) == (confidence * 1000) \div 100

\* blocks.push({text, confidence, bbox}) of analyzeFrame
textBlockOf(word) ==
    [text |-> word.text,
     confidence |-> normalizedConfidence(word.confidence),
     bbox |-> word.bbox]

\* The blocks analyzeFrame builds: one for each word with word.text.trim().
RECURSIVE blocksOfWords(_, _)
blocksOfWords(words, i) ==
    IF i > Len(words) THEN <<>>
    ELSE (IF trim(words[i].text) # <<>> THEN <<textBlockOf(words[i])>> ELSE <<>>)
             \o blocksOfWords(words, i + 1)

\* block.confidence < 0.6, in thousandths
ConfidenceThreshold == 600

\* text.length < 3
MinWordLength == 3

upperCased(s) == [i \in DOMAIN s |-> toUpperCase(s[i])]

\* /^(Home|News|...|Live)$/i
isNavLabel(text) ==
    \E k \in DOMAIN NavLabels : upperCased(text) = upperCased(NavLabels[k])

\* The predicate of blocks.filter(block => ...)
keepBlock(block) ==
    LET text == trim(block.text)
    IN /\ ~(Len(text) < MinWordLength)
       \* /^[A-Z\s]{1,5}$/
       /\ ~(Len(text) \in 1..5 /\ \A k \in DOMAIN text : text[k] \in Upper \cup Whitespace)
       /\ ~(block.confidence < ConfidenceThreshold)
       \* /^[^a-zA-Z]*$/
       /\ ~(\A k \in DOMAIN text : text[k] \notin Letter)
       /\ ~isNavLabel(text)

RECURSIVE filterBlocks(_, _)
filterBlocks(bs, i) ==
    IF i > Len(bs) THEN <<>>
    ELSE (IF keepBlock(bs[i]) THEN <<bs[i]>> ELSE <<>>) \o filterBlocks(bs, i + 1)

\* Math.abs(a.bbox.y0 - b.bbox.y0) < 10
LineThreshold == 10

abs(n) == IF n < 0 THEN -n ELSE n

\* The comparator of .sort((a, b) => ...)
compareBlocks(a, b) ==
    IF abs(a.bbox.y0 - b.bbox.y0) < LineThreshold
    THEN a.bbox.x0 - b.bbox.x0
    ELSE a.bbox.y0 - b.bbox.y0

(***************************************************************************)
(* Array.prototype.sort.  The comparator is not a consistent one (it is    *)
(* not transitive), so the order is the engine's: this is V8's TimSort,    *)
(* which for fewer than 64 elements takes the leading run (reversed when   *)
(* strictly descending) and inserts the rest by binary insertion.          *)
(***************************************************************************)
reverse(s) == [i \in DOMAIN s |-> s[Len(s) + 1 - i]]

runDescending(a) == compareBlocks(a[2], a[1]) < 0

\* CountAndMakeRun: the length of the leading run of a (Len(a) >= 2).
runLength(a) ==
    CHOOSE r \in 2..Len(a) :
        /\ \A idx \in 3..r :
              IF runDescending(a) THEN compareBlocks(a[idx], a[idx - 1]) < 0
              ELSE compareBlocks(a[idx], a[idx - 1]) >= 0
        /\ \/ r = Len(a)
           \/ IF runDescending(a) THEN compareBlocks(a[r + 1], a[r]) >= 0
              ELSE compareBlocks(a[r + 1], a[r]) < 0

\* The binary search of BinaryInsertionSort: how many of a[1..start-1] stay
\* before the pivot (left and right count elements, as the 0-based indices do).
RECURSIVE insertionPoint(_, _, _, _)
insertionPoint(a, pivot, left, right) ==
    IF ~(left < right) THEN left
    ELSE LET mid == left + ((right - left) \div 2)
         IN IF compareBlocks(pivot, a[mid + 1]) < 0
            THEN insertionPoint(a, pivot, left, mid)
            ELSE insertionPoint(a, pivot, mid + 1, right)

RECURSIVE binaryInsertionSort(_, _)
binaryInsertionSort(a, start) ==
    IF start > Len(a) THEN a
    ELSE LET left == insertionPoint(a, a[start], 0, start - 1)
         IN binaryInsertionSort(
                SubSeq(a, 1, left) \o <<a[start]>> \o SubSeq(a, left + 1, start - 1)
                    \o SubSeq(a, start + 1, Len(a)),
                start + 1)

sortBlocks(a) ==
    IF Len(a) < 2 THEN a
    ELSE LET r == runLength(a)
             run == IF runDescending(a)
                    THEN reverse(SubSeq(a, 1, r)) \o SubSeq(a, r + 1, Len(a))
                    ELSE a
         IN binaryInsertionSort(run, r + 1)

\* const processedBlocks = blocks.filter(...).sort(...)
processedBlocks(bs) == sortBlocks(filterBlocks(bs, 1))

\* processedBlocks.map(block => block.text).join(' ').replace(/\s+/g, ' ').trim()
combinedText(pbs) ==
    trim(collapseSpaces(join([i \in DOMAIN pbs |-> pbs[i].text], <<" ">>)))

(***************************************************************************)
(* The local cleanup on its own: a text is put together from at most       *)
(* MaxTokens pieces and cleanTextLocally is applied to it.                 *)
(***************************************************************************)
Scenario2Text ==
    <<"h","e","l","l","o"," ","w","o","r","l","d"," ","t","h","i","s"," ","i","s"," ","g","r","e",
      "a","t","."," ","a","n","d"," ","i","t"," ","w","o","r","k","s"," ","w","e","l","l","."," ",
      "o","k",".">>

Scenario2First ==
    <<"H","e","l","l","o"," ","w","o","r","l","d"," ","t","h","i","s"," ","i","s"," ","g","r","e",
      "a","t",".">>

Scenario2Second ==
    <<"A","n","d"," ","i","t"," ","w","o","r","k","s"," ","w","e","l","l",".">>

Scenario2Third ==
    <<"O","k",".">>

TokLong ==
    <<"t","h","e"," ","q","u","i","c","k"," ","b","r","o","w","n"," ","f","o","x"," ","j","u","m",
      "p","s"," ","o","v","e","r"," ","t","h","e"," ","d","o","g","."," ">>

TokQuote ==
    <<"\"","i","t"," ","w","a","s"," ","t","h","e"," ","b","e","s","t"," ","o","f"," ","t","i","m",
      "e","s",",","\""," ","s","h","e"," ","s","a","i","d","."," ">>

TokColon ==
    <<"t","h","e"," ","f","o","l","l","o","w","i","n","g"," ","i","t","e","m","s"," ","a","r","e",
      " ","l","i","s","t","e","d"," ","b","e","l","o","w",":"," ">>

TokJunk ==
    <<" ","#","[","x","]"," ","("," ","y"," ",")",".",".",".","\n">>

TokShort ==
    <<"o","k","."," ">>

TokLines ==
    <<"t","w","o","\n","l","i","n","e","s"," ","h","e","r","e","."," ">>

Tokens == {Scenario2Text, TokLong, TokQuote, TokColon, TokJunk, TokShort, TokLines}

MaxTokens == 3

flatten(parts) == join(parts, <<>>)

TextInit ==
    /\ txtIn = <<>>
    /\ txtOut = <<>>
    /\ txtPc = "input"

AppendToken ==
    /\ txtPc = "input"
    /\ Len(txtIn) < MaxTokens
    /\ \E t \in Tokens : txtIn' = Append(txtIn, t)
    /\ UNCHANGED <<txtOut, txtPc>>
    /\ UNCHANGED <<componentVars, aiVars, filterVars, composeVars>>

CleanText ==
    /\ txtPc = "input"
    /\ txtOut' = cleanTextLocally(flatten(txtIn))
    /\ txtPc' = "cleaned"
    /\ UNCHANGED txtIn
    /\ UNCHANGED <<componentVars, aiVars, filterVars, composeVars>>

(***************************************************************************)
(* The word filter and the sort on their own: a recognition result of at   *)
(* most MaxWords words goes through analyzeFrame's block building and      *)
(* filterAndFormatBlocks.                                                  *)
(***************************************************************************)
TxtFox ==
    <<"f","o","x",".">>

TxtNEWS ==
    <<"N","E","W","S">>

TxtHi ==
    <<"H","i">>

TxtQuick ==
    <<"q","u","i","c","k">>

TxtThe ==
    <<"T","h","e">>

WordTexts == {TxtFox, TxtNEWS, TxtHi}

WordConfidences == {55, 60}

\* Three words of a slanted line: each 9 pixels above its left neighbour.
WordBoxes ==
    {[x0 |-> 0, y0 |-> 18, x1 |-> 1, y1 |-> 28],
     [x0 |-> 1, y0 |-> 9, x1 |-> 2, y1 |-> 19],
     [x0 |-> 2, y0 |-> 0, x1 |-> 3, y1 |-> 10]}

Words == [text : WordTexts, confidence : WordConfidences, bbox : WordBoxes]

MaxWords == 3

FilterInit ==
    /\ ocrWords = <<>>
    /\ fBlocks = <<>>
    /\ fPc = "input"

RecognizeWord ==
    /\ fPc = "input"
    /\ Len(ocrWords) < MaxWords
    /\ \E w \in Words : ocrWords' = Append(ocrWords, w)
    /\ UNCHANGED <<fBlocks, fPc>>
    /\ UNCHANGED <<componentVars, aiVars, textVars, composeVars>>

FilterWords ==
    /\ fPc = "input"
    /\ fBlocks' = processedBlocks(blocksOfWords(ocrWords, 1))
    /\ fPc' = "filtered"
    /\ UNCHANGED ocrWords
    /\ UNCHANGED <<componentVars, aiVars, textVars, composeVars>>

(***************************************************************************)
(* The paragraph grouping on its own: a list of cleaned sentences is       *)
(* built, then grouped as step 3 of cleanTextLocally groups it.            *)
(***************************************************************************)
SentLong ==
    <<"T","h","e"," ","q","u","i","c","k"," ","b","r","o","w","n"," ","f","o","x"," ","j","u","m",
      "p","s"," ","o","v","e","r"," ","t","h","e"," ","d","o","g",".">>

SentOther ==
    <<"A"," ","l","a","z","y"," ","d","o","g"," ","s","l","e","e","p","s"," ","u","n","d","e","r",
      " ","t","h","e"," ","o","l","d"," ","o","a","k"," ","t","r","e","e",".">>


SentQuote ==
    <<"\"","i","t"," ","w","a","s"," ","t","h","e"," ","b","e","s","t"," ","o","f"," ","t","i","m",
      "e","s",","," ","\""," ","s","h","e"," ","s","a","i","d",".">>

SentColon ==
    <<"T","h","e"," ","f","o","l","l","o","w","i","n","g"," ","i","t","e","m","s"," ","a","r","e",
      " ","l","i","s","t","e","d"," ","b","e","l","o","w",":">>

SentShort == Scenario2Second

\* Cleaned sentences: two long ones, a short one, one that opens with a
\* quotation mark and one that ends with a colon.
CleanedSentences == {SentLong, SentOther, SentShort, SentQuote, SentColon}

MaxSentences == 5

ComposeInit ==
    /\ cmpSentences = <<>>
    /\ cmpParagraphs = <<>>
    /\ cmpPc = "input"

AppendSentence ==
    /\ cmpPc = "input"
    /\ Len(cmpSentences) < MaxSentences
    /\ \E s \in CleanedSentences : cmpSentences' = Append(cmpSentences, s)
    /\ UNCHANGED <<cmpParagraphs, cmpPc>>
    /\ UNCHANGED <<componentVars, aiVars, textVars, filterVars>>

\* processedSentences.forEach(...) over the whole list; each paragraph is kept
\* as the list of the sentences that currentParagraph.join(' ') joins.
GroupSentences ==
    /\ cmpPc = "input"
    /\ cmpParagraphs' = groupFrom(cmpSentences, 1, <<>>, <<>>)
    /\ cmpPc' = "grouped"
    /\ UNCHANGED cmpSentences
    /\ UNCHANGED <<componentVars, aiVars, textVars, filterVars>>

(***************************************************************************)
(* The component: its state, the initializeWorker calls, the capture runs. *)
(* A worker is named by the initializeWorker call that created it; 0 is    *)
(* null.                                                                   *)
(***************************************************************************)
\* const [languages] = useState(['eng', 'kor'])
NumLanguages == 2

MaxInitCalls == 2

MaxCaptures == 2

InitCallIds == 1..MaxInitCalls

CaptureIds == 1..MaxCaptures

NoError == "null"

TxtWorld ==
    <<"w","o","r","l","d",".">>

TxtHello ==
    <<"h","e","l","l","o">>

TxtPadded ==
    <<" ","H","i"," ","t","h","e","r","e","."," ">>

\* The recognition results (result.data): the text and the words of its lines.
Frames ==
    {[text |-> <<>>, words |-> <<>>],
     [text |-> TxtNEWS,
      words |-> <<[text |-> TxtNEWS, confidence |-> 95,
                   bbox |-> [x0 |-> 0, y0 |-> 0, x1 |-> 1, y1 |-> 10]]>>],
     [text |-> TxtHello \o <<" ">> \o TxtWorld,
      words |-> <<[text |-> TxtHello, confidence |-> 90,
                   bbox |-> [x0 |-> 0, y0 |-> 0, x1 |-> 1, y1 |-> 10]],
                  [text |-> TxtWorld, confidence |-> 80,
                   bbox |-> [x0 |-> 2, y0 |-> 0, x1 |-> 3, y1 |-> 10]]>>],
     [text |-> TxtFox,
      words |-> <<[text |-> TxtFox, confidence |-> 55,
                   bbox |-> [x0 |-> 0, y0 |-> 0, x1 |-> 1, y1 |-> 10]],
                  [text |-> TxtQuick, confidence |-> 70,
                   bbox |-> [x0 |-> 2, y0 |-> 0, x1 |-> 3, y1 |-> 10]],
                  [text |-> TxtFox, confidence |-> 99,
                   bbox |-> [x0 |-> 4, y0 |-> 0, x1 |-> 5, y1 |-> 10]]>>]}

NoFrame == [text |-> <<>>, words |-> <<>>]

\* For each recognition result, worked out once: the blocks analyzeFrame
\* builds from it, what filterAndFormatBlocks returns for them, and the
\* combinedText and the cleanTextLocally(combinedText) inside it.
FrameAnalysis ==
    [result \in Frames |->
        LET built == blocksOfWords(result.words, 1)
        IN [blocks |-> built,
            processedBlocks |-> processedBlocks(built),
            combinedText |-> combinedText(processedBlocks(built)),
            cleanedText |-> cleanTextLocally(combinedText(processedBlocks(built)))]]

IdleInitCall == [pc |-> "idle", lang |-> 0]

IdleCapture ==
    [pc |-> "idle", stream |-> "none", outcome |-> "none", result |-> NoFrame]

ComponentInit ==
    /\ isMounted = TRUE
    /\ workerRef = 0
    /\ workerState = [w \in InitCallIds |-> "none"]
    /\ initError = NoError
    /\ initializationStatus = "Starting initialization..."
    /\ isCapturing = FALSE
    /\ isAnalyzing = FALSE
    /\ blocks = <<>>
    /\ cleanedText = <<>>
    \* useEffect: initializeWorker() is awaiting createWorker()
    /\ initCalls = [i \in InitCallIds |->
                       IF i = 1 THEN [pc |-> "createWorker", lang |-> 0] ELSE IdleInitCall]
    /\ captures = [r \in CaptureIds |-> IdleCapture]

(***************************************************************************)
(* initializeWorker                                                        *)
(***************************************************************************)
\* The catch block of initializeWorker, entered by call i with this message.
initializeWorkerCatch(i, message) ==
    IF isMounted
    THEN /\ initError' = message
         /\ initializationStatus' = "Initialization failed"
         /\ IF workerRef # 0
            THEN \* await workerRef.current.terminate()
                 /\ workerState' = [workerState EXCEPT ![workerRef] = "terminated"]
                 /\ initCalls' = [initCalls EXCEPT ![i].pc = "terminate"]
            ELSE /\ initCalls' = [initCalls EXCEPT ![i].pc = "done"]
                 /\ UNCHANGED workerState
         /\ UNCHANGED workerRef
    ELSE /\ initCalls' = [initCalls EXCEPT ![i].pc = "done"]
         /\ UNCHANGED <<initError, initializationStatus, workerState, workerRef>>

\* The for loop over the languages and what follows it, entered by call i
\* when `loaded` languages are loaded.
loadNextLanguage(i, loaded) ==
    IF loaded < NumLanguages
    THEN IF ~isMounted
         THEN initCalls' = [initCalls EXCEPT ![i].pc = "done"]
         ELSE initCalls' = [initCalls EXCEPT ![i].pc = "loadLanguage", ![i].lang = loaded + 1]
    ELSE IF isMounted
         THEN initCalls' = [initCalls EXCEPT ![i].pc = "initialize"]
         ELSE initCalls' = [initCalls EXCEPT ![i].pc = "done"]

\* await createWorker() resolves
CreateWorkerResolve(i) ==
    /\ initCalls[i].pc = "createWorker"
    /\ workerState' = [workerState EXCEPT ![i] = "live"]
    /\ workerRef' = i
    /\ initializationStatus' = "Loading languages..."
    /\ loadNextLanguage(i, 0)
    /\ UNCHANGED <<isMounted, initError, isCapturing, isAnalyzing, blocks, cleanedText,
                   captures>>
    /\ UNCHANGED <<aiVars, textVars, filterVars, composeVars>>

CreateWorkerReject(i) ==
    /\ initCalls[i].pc = "createWorker"
    /\ initializeWorkerCatch(i, "createWorker failed")
    /\ UNCHANGED <<isMounted, isCapturing, isAnalyzing, blocks, cleanedText, captures>>
    /\ UNCHANGED <<aiVars, textVars, filterVars, composeVars>>

\* await worker.loadLanguage(lang) resolves
LoadLanguageResolve(i) ==
    /\ initCalls[i].pc = "loadLanguage"
    /\ loadNextLanguage(i, initCalls[i].lang)
    /\ UNCHANGED <<isMounted, workerRef, workerState, initError, initializationStatus,
                   isCapturing, isAnalyzing, blocks, cleanedText, captures>>
    /\ UNCHANGED <<aiVars, textVars, filterVars, composeVars>>

LoadLanguageReject(i) ==
    /\ initCalls[i].pc = "loadLanguage"
    /\ initializeWorkerCatch(i, "Language initialization failed")
    /\ UNCHANGED <<isMounted, isCapturing, isAnalyzing, blocks, cleanedText, captures>>
    /\ UNCHANGED <<aiVars, textVars, filterVars, composeVars>>

\* await worker.initialize(...) resolves
InitializeResolve(i) ==
    /\ initCalls[i].pc = "initialize"
    /\ initializationStatus' = "Ready"
    /\ initCalls' = [initCalls EXCEPT ![i].pc = "done"]
    /\ UNCHANGED <<isMounted, workerRef, workerState, initError, isCapturing, isAnalyzing,
                   blocks, cleanedText, captures>>
    /\ UNCHANGED <<aiVars, textVars, filterVars, composeVars>>

InitializeReject(i) ==
    /\ initCalls[i].pc = "initialize"
    /\ initializeWorkerCatch(i, "Language initialization failed")
    /\ UNCHANGED <<isMounted, isCapturing, isAnalyzing, blocks, cleanedText, captures>>
    /\ UNCHANGED <<aiVars, textVars, filterVars, composeVars>>

\* await workerRef.current.terminate() settles, either way
TerminateSettle(i) ==
    /\ initCalls[i].pc = "terminate"
    /\ workerRef' = 0
    /\ initCalls' = [initCalls EXCEPT ![i].pc = "done"]
    /\ UNCHANGED <<isMounted, workerState, initError, initializationStatus, isCapturing,
                   isAnalyzing, blocks, cleanedText, captures>>
    /\ UNCHANGED <<aiVars, textVars, filterVars, composeVars>>

\* worker.logger, called by a live worker
Logger(i) ==
    /\ workerState[i] = "live"
    /\ isMounted
    /\ initializationStatus' = "loading tesseract core"
    /\ UNCHANGED <<isMounted, workerRef, workerState, initError, isCapturing, isAnalyzing,
                   blocks, cleanedText, initCalls, captures>>
    /\ UNCHANGED <<aiVars, textVars, filterVars, composeVars>>

\* A Retry Initialization that also clears the error banner.
RetryInitializationClearingError(i) ==
    /\ isMounted
    /\ initError # NoError
    /\ initCalls[i].pc = "idle"
    /\ i > 1 /\ initCalls[i - 1].pc # "idle"
    /\ initCalls' = [initCalls EXCEPT ![i].pc = "createWorker"]
    /\ initError' = NoError
    /\ UNCHANGED <<isMounted, workerRef, workerState, initializationStatus,
                   isCapturing, isAnalyzing, blocks, cleanedText, captures>>
    /\ UNCHANGED <<aiVars, textVars, filterVars, composeVars>>

\* The Retry Initialization button, shown with the error banner
RetryInitialization(i) ==
    /\ isMounted
    /\ initError # NoError
    /\ initCalls[i].pc = "idle"
    /\ i > 1 /\ initCalls[i - 1].pc # "idle"
    /\ initCalls' = [initCalls EXCEPT ![i].pc = "createWorker"]
    /\ UNCHANGED <<isMounted, workerRef, workerState, initError, initializationStatus,
                   isCapturing, isAnalyzing, blocks, cleanedText, captures>>
    /\ UNCHANGED <<aiVars, textVars, filterVars, composeVars>>

\* The cleanup of useEffect
Unmount ==
    /\ isMounted
    /\ isMounted' = FALSE
    /\ IF workerRef # 0
       THEN /\ workerState' = [workerState EXCEPT ![workerRef] = "terminated"]
            /\ workerRef' = 0
       ELSE UNCHANGED <<workerRef, workerState>>
    /\ UNCHANGED <<initError, initializationStatus, isCapturing, isAnalyzing, blocks,
                   cleanedText, initCalls, captures>>
    /\ UNCHANGED <<aiVars, textVars, filterVars, composeVars>>

(***************************************************************************)
(* The capture button, startCapture, handleStream, analyzeFrames and       *)
(* analyzeFrame.                                                           *)
(***************************************************************************)
\* disabled={!workerRef.current || initializationStatus !== 'Ready'}
buttonEnabled == isMounted /\ workerRef # 0 /\ initializationStatus = "Ready"

\* onClick of the button while isCapturing is false: startCapture up to its await
StartCapture(r) ==
    /\ buttonEnabled
    /\ ~isCapturing
    /\ initError = NoError
    /\ captures[r].pc = "idle"
    /\ r > 1 => captures[r - 1].pc # "idle"
    /\ captures' = [captures EXCEPT ![r].pc = "getDisplayMedia"]
    /\ UNCHANGED <<isMounted, workerRef, workerState, initError, initializationStatus,
                   isCapturing, isAnalyzing, blocks, cleanedText, initCalls>>
    /\ UNCHANGED <<aiVars, textVars, filterVars, composeVars>>

\* onClick of the button while initError is set: startCapture logs and returns
StartCaptureBlocked(r) ==
    /\ buttonEnabled
    /\ ~isCapturing
    /\ initError # NoError
    /\ captures[r].pc = "idle"
    /\ r > 1 => captures[r - 1].pc # "idle"
    /\ captures' = [captures EXCEPT ![r].pc = "done", ![r].outcome = "blocked"]
    /\ UNCHANGED <<isMounted, workerRef, workerState, initError, initializationStatus,
                   isCapturing, isAnalyzing, blocks, cleanedText, initCalls>>
    /\ UNCHANGED <<aiVars, textVars, filterVars, composeVars>>

\* await getDisplayMedia(...) resolves: setIsCapturing(true); handleStream(stream)
GetDisplayMediaResolve(r) ==
    /\ captures[r].pc = "getDisplayMedia"
    /\ isCapturing' = TRUE
    /\ captures' = [captures EXCEPT ![r].pc = "video", ![r].stream = "live"]
    /\ UNCHANGED <<isMounted, workerRef, workerState, initError, initializationStatus,
                   isAnalyzing, blocks, cleanedText, initCalls>>
    /\ UNCHANGED <<aiVars, textVars, filterVars, composeVars>>

GetDisplayMediaReject(r) ==
    /\ captures[r].pc = "getDisplayMedia"
    /\ isCapturing' = FALSE
    /\ captures' = [captures EXCEPT ![r].pc = "done", ![r].outcome = "denied"]
    /\ UNCHANGED <<isMounted, workerRef, workerState, initError, initializationStatus,
                   isAnalyzing, blocks, cleanedText, initCalls>>
    /\ UNCHANGED <<aiVars, textVars, filterVars, composeVars>>

\* onloadedmetadata, video.play() resolves: analyzeFrames sets the timer
VideoPlay(r) ==
    /\ captures[r].pc = "video"
    /\ captures' = [captures EXCEPT ![r].pc = "timer"]
    /\ UNCHANGED <<isMounted, workerRef, workerState, initError, initializationStatus,
                   isCapturing, isAnalyzing, blocks, cleanedText, initCalls>>
    /\ UNCHANGED <<aiVars, textVars, filterVars, composeVars>>

\* video.play() rejects, or the canvas gives no context: nothing follows
VideoFail(r) ==
    /\ captures[r].pc = "video"
    /\ captures' = [captures EXCEPT ![r].pc = "done", ![r].outcome = "stalled"]
    /\ UNCHANGED <<isMounted, workerRef, workerState, initError, initializationStatus,
                   isCapturing, isAnalyzing, blocks, cleanedText, initCalls>>
    /\ UNCHANGED <<aiVars, textVars, filterVars, composeVars>>

\* A timer callback whose clean-up is skipped, as if analyzeFrame had thrown.
analyzeFramesCleanupSkipped(r, outcome, result) ==
    /\ captures' = [captures EXCEPT ![r].pc = "done", ![r].outcome = outcome,
                                    ![r].result = result]
    /\ UNCHANGED <<isAnalyzing, isCapturing>>

\* What the timer callback does after `await analyzeFrame(...)`.
analyzeFramesCleanup(r, outcome, result) ==
    /\ isAnalyzing' = FALSE
    /\ isCapturing' = FALSE
    /\ captures' = [captures EXCEPT ![r].pc = "done", ![r].stream = "stopped",
                                    ![r].outcome = outcome, ![r].result = result]

\* A catch block that also clears what is displayed.
analyzeFrameCatchClearing(message) ==
    /\ initError' = message
    /\ blocks' = <<>>
    /\ cleanedText' = <<>>

\* The catch block of analyzeFrame
analyzeFrameCatch(message) ==
    /\ initError' = message
    /\ UNCHANGED <<blocks, cleanedText>>

\* The timer fires with no worker: analyzeFrame throws at once and catches
AnalyzeNoWorker(r) ==
    /\ captures[r].pc = "timer"
    /\ workerRef = 0
    /\ analyzeFrameCatch("Worker not initialized")
    /\ analyzeFramesCleanup(r, "noWorker", NoFrame)
    /\ UNCHANGED <<isMounted, workerRef, workerState, initializationStatus, initCalls>>
    /\ UNCHANGED <<aiVars, textVars, filterVars, composeVars>>

\* The timer fires and the frame drawn is all zero: analyzeFrame returns
AnalyzeEmptyFrame(r) ==
    /\ captures[r].pc = "timer"
    /\ workerRef # 0
    /\ analyzeFramesCleanup(r, "emptyFrame", NoFrame)
    /\ UNCHANGED <<isMounted, workerRef, workerState, initError, initializationStatus,
                   blocks, cleanedText, initCalls>>
    /\ UNCHANGED <<aiVars, textVars, filterVars, composeVars>>

\* The timer fires: setIsAnalyzing(true), analyzeFrame up to `await recognize`
AnalyzeRecognize(r) ==
    /\ captures[r].pc = "timer"
    /\ workerRef # 0
    /\ isAnalyzing' = TRUE
    /\ captures' = [captures EXCEPT ![r].pc = "recognize"]
    /\ UNCHANGED <<isMounted, workerRef, workerState, initError, initializationStatus,
                   isCapturing, blocks, cleanedText, initCalls>>
    /\ UNCHANGED <<aiVars, textVars, filterVars, composeVars>>

\* filterAndFormatBlocks(blocks) for the blocks of this result, and the
\* setBlocks of what it returns.
filterAndFormatBlocks(result) ==
    /\ IF FrameAnalysis[result].combinedText # <<>>
       THEN cleanedText' = FrameAnalysis[result].cleanedText
       ELSE UNCHANGED cleanedText
    /\ blocks' = FrameAnalysis[result].processedBlocks

\* The body of analyzeFrame after `await recognize(canvas)`
analyzeFrameResult(result) ==
    IF result.text # <<>> /\ isMounted /\ Len(FrameAnalysis[result].blocks) > 0
    THEN filterAndFormatBlocks(result)
    ELSE UNCHANGED <<blocks, cleanedText>>

\* await recognize(canvas) resolves
RecognizeResolve(r) ==
    /\ captures[r].pc = "recognize"
    /\ \E result \in Frames :
          /\ analyzeFrameResult(result)
          /\ analyzeFramesCleanup(r, "recognized", result)
    /\ UNCHANGED <<isMounted, workerRef, workerState, initError, initializationStatus,
                   initCalls>>
    /\ UNCHANGED <<aiVars, textVars, filterVars, composeVars>>

\* await recognize(canvas) rejects
RecognizeReject(r) ==
    /\ captures[r].pc = "recognize"
    /\ analyzeFrameCatch("recognize failed")
    /\ analyzeFramesCleanup(r, "failed", NoFrame)
    /\ UNCHANGED <<isMounted, workerRef, workerState, initializationStatus, initCalls>>
    /\ UNCHANGED <<aiVars, textVars, filterVars, composeVars>>

\* onClick of the button while isCapturing is true
StopCapture ==
    /\ buttonEnabled
    /\ isCapturing
    /\ isCapturing' = FALSE
    /\ UNCHANGED <<isMounted, workerRef, workerState, initError, initializationStatus,
                   isAnalyzing, blocks, cleanedText, initCalls, captures>>
    /\ UNCHANGED <<aiVars, textVars, filterVars, composeVars>>

(***************************************************************************)
(* cleanTextWithAI.  The component never calls it; here it is called with  *)
(* a text and the remote call settles.                                     *)
(***************************************************************************)
MaxAICalls == 2

AICallIds == 1..MaxAICalls

AITexts == {TxtFox, TxtPadded}

\* What textGeneration resolves with: nothing, or an object with generated_text.
NoResponse == [present |-> FALSE, generated_text |-> <<>>]

AIResponses ==
    {NoResponse,
     [present |-> TRUE, generated_text |-> <<>>],
     [present |-> TRUE, generated_text |-> TxtPadded],
     [present |-> TRUE, generated_text |-> TxtHello]}

IdleAICall ==
    [pc |-> "idle", text |-> <<>>, settled |-> "none", response |-> NoResponse,
     result |-> <<>>]

AIInit ==
    /\ isLoading = FALSE
    /\ aiCalls = [c \in AICallIds |-> IdleAICall]

hasGeneratedText(response) == response.present /\ response.generated_text # <<>>

\* What cleanTextWithAI returns when textGeneration resolves with response.
cleanTextWithAIResolved(text, response) ==
    IF hasGeneratedText(response) THEN trim(response.generated_text) ELSE text

\* A catch block that returns the empty string.
cleanTextWithAICaughtEmpty(text) == <<>>

\* What cleanTextWithAI returns from its catch block.
cleanTextWithAICaught(text) == text

\* cleanTextWithAI(text) up to its await: setIsLoading(true)
CleanTextWithAI(c) ==
    /\ isMounted
    /\ aiCalls[c].pc = "idle"
    /\ c > 1 => aiCalls[c - 1].pc # "idle"
    /\ \E text \in AITexts :
          aiCalls' = [aiCalls EXCEPT ![c].pc = "textGeneration", ![c].text = text]
    /\ isLoading' = TRUE
    /\ UNCHANGED initError
    /\ UNCHANGED <<isMounted, workerRef, workerState, initializationStatus, isCapturing,
                   isAnalyzing, blocks, cleanedText, initCalls, captures>>
    /\ UNCHANGED <<textVars, filterVars, composeVars>>

\* await hf.current.textGeneration(...) resolves; finally setIsLoading(false)
TextGenerationResolve(c) ==
    /\ aiCalls[c].pc = "textGeneration"
    /\ \E response \in AIResponses :
          aiCalls' = [aiCalls EXCEPT
                         ![c].pc = "returned", ![c].settled = "resolved",
                         ![c].response = response,
                         ![c].result = cleanTextWithAIResolved(aiCalls[c].text, response)]
    /\ isLoading' = FALSE
    /\ UNCHANGED initError
    /\ UNCHANGED <<isMounted, workerRef, workerState, initializationStatus, isCapturing,
                   isAnalyzing, blocks, cleanedText, initCalls, captures>>
    /\ UNCHANGED <<textVars, filterVars, composeVars>>

\* await hf.current.textGeneration(...) rejects; finally setIsLoading(false)
TextGenerationReject(c) ==
    /\ aiCalls[c].pc = "textGeneration"
    /\ aiCalls' = [aiCalls EXCEPT
                      ![c].pc = "returned", ![c].settled = "rejected",
                      ![c].result = cleanTextWithAICaught(aiCalls[c].text)]
    /\ isLoading' = FALSE
    /\ UNCHANGED initError
    /\ UNCHANGED <<isMounted, workerRef, workerState, initializationStatus, isCapturing,
                   isAnalyzing, blocks, cleanedText, initCalls, captures>>
    /\ UNCHANGED <<textVars, filterVars, composeVars>>

(***************************************************************************)
(* Specifications.                                                         *)
(***************************************************************************)
Init == ComponentInit /\ AIInit /\ TextInit /\ FilterInit /\ ComposeInit

Next ==
    \/ \E i \in InitCallIds : CreateWorkerResolve(i)
    \/ \E i \in InitCallIds : CreateWorkerReject(i)
    \/ \E i \in InitCallIds : LoadLanguageResolve(i)
    \/ \E i \in InitCallIds : LoadLanguageReject(i)
    \/ \E i \in InitCallIds : InitializeResolve(i)
    \/ \E i \in InitCallIds : InitializeReject(i)
    \/ \E i \in InitCallIds : TerminateSettle(i)
    \/ \E i \in InitCallIds : Logger(i)
    \/ \E i \in InitCallIds : RetryInitialization(i)
    \/ Unmount
    \/ \E r \in CaptureIds : StartCapture(r)
    \/ \E r \in CaptureIds : StartCaptureBlocked(r)
    \/ \E r \in CaptureIds : GetDisplayMediaResolve(r)
    \/ \E r \in CaptureIds : GetDisplayMediaReject(r)
    \/ \E r \in CaptureIds : VideoPlay(r)
    \/ \E r \in CaptureIds : VideoFail(r)
    \/ \E r \in CaptureIds : AnalyzeNoWorker(r)
    \/ \E r \in CaptureIds : AnalyzeEmptyFrame(r)
    \/ \E r \in CaptureIds : AnalyzeRecognize(r)
    \/ \E r \in CaptureIds : RecognizeResolve(r)
    \/ \E r \in CaptureIds : RecognizeReject(r)
    \/ StopCapture

Spec == Init /\ [][Next]_vars

\* The recognition call of a capture settles: recognize(canvas) is a promise
\* of the worker, which answers every job with a result or an error.
SpecSettling ==
    /\ Init
    /\ [][Next]_vars
    /\ \A r \in CaptureIds : WF_vars(RecognizeResolve(r) \/ RecognizeReject(r))

SpecAINext ==
    \/ \E c \in AICallIds : CleanTextWithAI(c)
    \/ \E c \in AICallIds : TextGenerationResolve(c)
    \/ \E c \in AICallIds : TextGenerationReject(c)

SpecAI == Init /\ [][SpecAINext]_vars

SpecTextNext ==
    \/ AppendToken
    \/ CleanText

SpecText == Init /\ [][SpecTextNext]_vars

SpecFilterNext ==
    \/ RecognizeWord
    \/ FilterWords

SpecFilter == Init /\ [][SpecFilterNext]_vars

SpecComposeNext ==
    \/ AppendSentence
    \/ GroupSentences

SpecCompose == Init /\ [][SpecComposeNext]_vars

(***************************************************************************)
(* Properties.                                                             *)
(***************************************************************************)
\* C1: mutual exclusion of pipeline runs: startCapture never begins a capture
\* while another capture's recognition (with the cleanup that follows it) is in
\* flight, and at most one analyzeFrame is awaiting recognition at any time.
MutualExclusion ==
    [][/\ \A r \in CaptureIds :
             (captures[r].pc = "idle" /\ captures'[r].pc = "getDisplayMedia")
                 => \A q \in CaptureIds : captures[q].pc # "recognize"
       /\ Cardinality({r \in CaptureIds : captures'[r].pc = "recognize"}) <= 1]_vars

\* C2: once the component is unmounted no continuation updates blocks,
\* cleanedText, isCapturing, isAnalyzing, initError or initializationStatus.
NoStateUpdateAfterUnmount ==
    [][~isMounted =>
           UNCHANGED <<blocks, cleanedText, isCapturing, isAnalyzing, initError,
                       initializationStatus>>]_vars

liveWorkers == {w \in InitCallIds : workerState[w] = "live"}

initializing == {i \in InitCallIds : initCalls[i].pc \notin {"idle", "done"}}

\* C3: at most one un-terminated worker exists at any time, and after the
\* unmount, once no initializeWorker call is in progress, no worker is live.
WorkerLifecycle ==
    /\ Cardinality(liveWorkers) <= 1
    /\ (~isMounted /\ initializing = {}) => liveWorkers = {}

\* The CleanedDocument of a recognition result.
documentOf(result) == FrameAnalysis[result].cleanedText

\* C4: each completed run replaces the displayed cleaned text with the run's
\* CleanedDocument (the empty string when no word survives the filter).
RunReplacesCleanedText ==
    [][\A r \in CaptureIds :
           (isMounted /\ captures[r].pc = "recognize"
                /\ captures'[r].outcome = "recognized")
               => cleanedText' = documentOf(captures'[r].result)]_vars

\* C5: when analyzeFrame finds no worker or recognize throws, initError is
\* set, the run ends, and the step leaves blocks and cleanedText as they were.
EngineFailureKeepsOutput ==
    [][\A r \in CaptureIds :
           (captures[r].pc \in {"timer", "recognize"}
                /\ captures'[r].outcome \in {"noWorker", "failed"})
               => /\ initError' # NoError
                  /\ captures'[r].pc = "done"
                  /\ blocks' = blocks
                  /\ cleanedText' = cleanedText]_vars

\* A run failed in recognition while an earlier run's text and blocks are shown.
EngineFailureWitness ==
    /\ \E r \in CaptureIds : captures[r].outcome = "failed"
    /\ initError = "recognize failed"
    /\ cleanedText # <<>>
    /\ blocks # <<>>

\* C6: every block the word filter lets through is the block of a recognized
\* word whose confidence is not below 60 of 100 (0.6 once divided by 100).
FilterInvariant ==
    fPc = "filtered" =>
        \A k \in DOMAIN fBlocks :
            \E j \in DOMAIN ocrWords :
                /\ fBlocks[k] = textBlockOf(ocrWords[j])
                /\ ~(ocrWords[j].confidence < 60)

\* A word of confidence 55 with an acceptable text was filtered out while
\* another word was kept.
FilterWitness ==
    /\ fPc = "filtered"
    /\ \E j \in DOMAIN ocrWords :
          ocrWords[j].text = TxtFox /\ ocrWords[j].confidence = 55
    /\ Len(fBlocks) >= 1
    /\ Len(fBlocks) < Len(ocrWords)

\* C7: in the sorted output, a block that precedes another whose y0 differs by
\* 10 or more has the smaller y0.
SortInvariant ==
    fPc = "filtered" =>
        \A a, b \in DOMAIN fBlocks :
            (a < b /\ abs(fBlocks[a].bbox.y0 - fBlocks[b].bbox.y0) >= 10)
                => fBlocks[a].bbox.y0 < fBlocks[b].bbox.y0

\* String.prototype.split on a literal separator
RECURSIVE splitLiteral(_, _, _)
splitLiteral(s, sep, i) ==
    LET hit == [q \in 1..Len(s) |-> MatchAt(s, q, sep)]
        p == firstFrom(hit, i)
    IN IF p = 0 THEN <<SubSeq(s, i, Len(s))>>
       ELSE <<SubSeq(s, i, p - 1)>> \o splitLiteral(s, sep, p + Len(sep))

\* The paragraphs of a document: the empty document has none.
documentParagraphs(doc) ==
    IF doc = <<>> THEN <<>> ELSE splitLiteral(doc, <<"\n", "\n">>, 1)

\* C8: the document cleanTextLocally returns, split on the blank line, has no
\* empty paragraph and no newline inside, before or after a paragraph.
ParagraphInvariant ==
    txtPc = "cleaned" =>
        \A p \in DOMAIN documentParagraphs(txtOut) :
            /\ documentParagraphs(txtOut)[p] # <<>>
            /\ \A k \in DOMAIN documentParagraphs(txtOut)[p] :
                  documentParagraphs(txtOut)[p][k] # "\n"

\* A text with a newline in it was cleaned into several paragraphs.
ParagraphWitness ==
    /\ txtPc = "cleaned"
    /\ \E k \in DOMAIN flatten(txtIn) : flatten(txtIn)[k] = "\n"
    /\ Len(documentParagraphs(txtOut)) >= 2

\* C9: when textGeneration rejects or resolves with no generated text,
\* cleanTextWithAI returns its input, sets no error, and isLoading is false
\* when it returns.
RemoteCleanupFailsOpen ==
    [][\A c \in AICallIds :
           (/\ aiCalls[c].pc = "textGeneration"
            /\ aiCalls'[c].pc # "textGeneration"
            /\ \/ aiCalls'[c].settled = "rejected"
               \/ ~hasGeneratedText(aiCalls'[c].response))
               => /\ aiCalls'[c].pc = "returned"
                  /\ aiCalls'[c].result = aiCalls[c].text
                  /\ isLoading' = FALSE
                  /\ initError' = initError]_vars

\* One call was rejected and another resolved with an empty generated text.
RemoteCleanupWitness ==
    /\ \E c \in AICallIds :
          aiCalls[c].pc = "returned" /\ aiCalls[c].settled = "rejected"
    /\ \E c \in AICallIds :
          /\ aiCalls[c].pc = "returned" /\ aiCalls[c].settled = "resolved"
          /\ aiCalls[c].response.present /\ aiCalls[c].response.generated_text = <<>>

\* C10 as stated: scenario 2 yields three sentences and three paragraphs.
Scenario2ThreeParagraphs ==
    (txtPc = "cleaned" /\ txtIn = <<Scenario2Text>>) =>
        /\ processedSentences(flatten(txtIn))
               = <<Scenario2First, Scenario2Second, Scenario2Third>>
        /\ txtOut = join(<<Scenario2First, Scenario2Second, Scenario2Third>>,
                         <<"\n", "\n">>)

\* C10 as amended: scenario 2 yields the two sentences "Hello world this is
\* great." and "And it works well." ("ok." is shorter than 5 characters and is
\* dropped), each shorter than 30 characters, so two paragraphs.
Scenario2TwoParagraphs ==
    (txtPc = "cleaned" /\ txtIn = <<Scenario2Text>>) =>
        /\ processedSentences(flatten(txtIn)) = <<Scenario2First, Scenario2Second>>
        /\ \A k \in 1..2 :
              Len(processedSentences(flatten(txtIn))[k]) < ShortSentenceLength
        /\ txtOut = join(<<Scenario2First, Scenario2Second>>, <<"\n", "\n">>)

\* Scenario 2's text was cleaned.
Scenario2Witness ==
    /\ txtPc = "cleaned"
    /\ txtIn = <<Scenario2Text>>
    /\ txtOut # <<>>


\* C11: cleanTextLocally is idempotent: applied to the document it returned,
\* it returns that document again.
LocalCleanupIdempotent ==
    txtPc = "cleaned" => cleanTextLocally(txtOut) = txtOut

\* The number of sentences in the paragraphs before paragraph g.
RECURSIVE sentencesBefore(_, _)
sentencesBefore(groups, g) ==
    IF g = 1 THEN 0 ELSE sentencesBefore(groups, g - 1) + Len(groups[g - 1])

\* The paragraph that holds the k-th sentence, and the sentence's place in it.
paragraphOfSentence(groups, k) ==
    CHOOSE g \in DOMAIN groups :
        /\ sentencesBefore(groups, g) < k
        /\ k <= sentencesBefore(groups, g) + Len(groups[g])

placeInParagraph(groups, k) ==
    k - sentencesBefore(groups, paragraphOfSentence(groups, k))

\* What the accumulator held when the k-th sentence was visited.
heldBefore(groups, k) ==
    LET g == paragraphOfSentence(groups, k)
        place == placeInParagraph(groups, k)
    IN IF place > 1 THEN place - 1
       ELSE IF g = 1 THEN 0 ELSE Len(groups[g - 1])

\* C12: the paragraphs read in order give back the sentences; a sentence that
\* is not the first starts a paragraph exactly when the accumulator holds 3 or
\* more sentences, or the sentence opens with a quotation mark, is shorter
\* than 30 characters or ends with a colon; no paragraph holds more than 3.
ComposerFold ==
    cmpPc = "grouped" =>
        /\ expand(cmpParagraphs) = cmpSentences
        /\ join(paragraphsOf(cmpParagraphs), <<" ">>) = join(cmpSentences, <<" ">>)
        /\ \A g \in DOMAIN cmpParagraphs : Len(cmpParagraphs[g]) \in 1..3
        /\ \A k \in 2..Len(cmpSentences) :
              (placeInParagraph(cmpParagraphs, k) = 1)
                  <=> \/ heldBefore(cmpParagraphs, k) >= 3
                      \/ cmpSentences[k][1] \in {"\"", "'"}
                      \/ Len(cmpSentences[k]) < 30
                      \/ cmpSentences[k][Len(cmpSentences[k])] = ":"

\* A paragraph of three long sentences was closed by a fourth long sentence,
\* and a sentence ending with a colon started the last paragraph.
ComposerFoldWitness ==
    /\ cmpPc = "grouped"
    /\ Len(cmpParagraphs) = 3
    /\ Len(cmpParagraphs[1]) = 3
    /\ cmpParagraphs[2] = <<SentOther>>
    /\ cmpParagraphs[3] = <<SentColon>>

\* The capture r has been wound down: the analyzing and capturing flags are
\* false and the tracks of its stream are stopped.
woundDown(r) ==
    /\ captures[r].pc = "done"
    /\ captures[r].stream = "stopped"
    /\ ~isAnalyzing
    /\ ~isCapturing

\* C13: once the timer of a capture has fired, the capture is wound down: in
\* the same step when analyzeFrame returns without awaiting (no worker, empty
\* frame), and eventually when it awaits the recognition, whether that
\* resolves or rejects.
CaptureWindsDown ==
    /\ [][\A r \in CaptureIds :
             (captures[r].pc = "timer" /\ captures'[r].pc = "done")
                 => /\ captures'[r].stream = "stopped"
                    /\ ~isAnalyzing'
                    /\ ~isCapturing']_vars
    /\ \A r \in CaptureIds : (captures[r].pc = "recognize") ~> woundDown(r)

\* A capture whose recognition was rejected has been wound down.
CaptureWindsDownWitness ==
    \E r \in CaptureIds : captures[r].outcome = "failed" /\ woundDown(r)

\* C14: initError, once set, is never reset, and while it is set no call of
\* startCapture requests a screen capture, also after a Retry Initialization
\* has brought the worker to Ready.
ErrorAbsorbingForCapture ==
    [][initError # NoError =>
          /\ initError' # NoError
          /\ \A r \in CaptureIds :
                captures[r].pc = "idle" => captures'[r].pc # "getDisplayMedia"]_vars

\* After a failed initialization a retry made the worker Ready, and a click on
\* the capture button returned without requesting a capture.
ErrorAbsorbingWitness ==
    /\ initError # NoError
    /\ initializationStatus = "Ready"
    /\ \E i \in InitCallIds : i > 1 /\ initCalls[i].pc = "done" /\ workerRef = i
    /\ \E r \in CaptureIds : captures[r].outcome = "blocked"
====
